---------------------------- MODULE Spec2Model ----------------------------
(***************************************************************************)
(* The history command of the flatpak command-line client:                *)
(* flatpak_builtin_history, parse_time, print_history, get_time, get_field *)
(* and dir_get_id of app/flatpak-builtins-history.c, and flatpak_run, main *)
(* and the resolution of the target installations by                       *)
(* flatpak_option_context_parse of app/flatpak-main.c.                     *)
(*                                                                         *)
(* C strings are sequences of one-character strings; a char* is a record   *)
(* [ok, s] whose ok is FALSE for the NULL pointer.  The instants of the    *)
(* journal scan are microseconds since the epoch, a GDateTime* being a     *)
(* record [ok, t]; those of parse_time are a day number, the second of the *)
(* day and its microseconds, [ok, day, sec, usec].                         *)
(***************************************************************************)
EXTENDS Integers, Sequences, FiniteSets, TLC

(***************************************************************************)
(* C strings and pointers                                                  *)
(***************************************************************************)
NULL == [ok |-> FALSE, s |-> <<>>]

Str(s) == [ok |-> TRUE, s |-> s]

\* The characters the model uses, in ascending byte order.  "U+2713" stands
\* for the check mark, a multi-byte sequence whose first byte is above every
\* ASCII character.
Alphabet ==
  << " ", "-", ".", "/",
     "0", "1", "2", "3", "4", "5", "6", "7", "8", "9", ":", "=",
     "A", "C", "E", "F", "I", "K", "L", "M", "N", "O", "P", "R", "S", "T",
     "U", "V", "_",
     "a", "b", "c", "d", "e", "f", "g", "h", "i", "j", "k", "l", "m", "n",
     "o", "p", "r", "s", "t", "u", "v", "w", "x", "y", "z", "U+2713" >>

Ord(c) == CHOOSE i \in 1..Len(Alphabet) : Alphabet[i] = c

RECURSIVE strcmp(_, _)
strcmp(a, b) ==
  IF a = <<>> /\ b = <<>> THEN 0
  ELSE IF a = <<>> THEN -1
  ELSE IF b = <<>> THEN 1
  ELSE IF Head(a) = Head(b) THEN strcmp(Tail(a), Tail(b))
  ELSE IF Ord(Head(a)) < Ord(Head(b)) THEN -1 ELSE 1

\* g_strcmp0: strcmp that takes NULL, which sorts before every string.
g_strcmp0(p, q) ==
  IF ~p.ok /\ ~q.ok THEN 0
  ELSE IF ~p.ok THEN -1
  ELSE IF ~q.ok THEN 1
  ELSE strcmp(p.s, q.s)

Digits == <<"0", "1", "2", "3", "4", "5", "6", "7", "8", "9">>

IsDigit(c) == \E i \in 1..10 : Digits[i] = c

DigitVal(c) == (CHOOSE i \in 1..10 : Digits[i] = c) - 1

RECURSIVE ParseDigits(_, _)
ParseDigits(s, acc) ==
  IF s = <<>> \/ ~IsDigit(Head(s)) THEN acc
  ELSE ParseDigits(Tail(s), acc * 10 + DigitVal(Head(s)))

\* g_ascii_strtoll (nptr, NULL, 10) on a non-NULL string: an optional sign
\* and the longest run of digits; 0 when there is none.
g_ascii_strtoll(s) ==
  IF s # <<>> /\ Head(s) = "-" THEN 0 - ParseDigits(Tail(s), 0)
  ELSE ParseDigits(s, 0)

RECURSIVE ToDecimal(_)
ToDecimal(n) ==
  IF n < 10 THEN <<Digits[n + 1]>>
  ELSE Append(ToDecimal(n \div 10), Digits[(n % 10) + 1])

\* g_strndup (s, n)
g_strndup(s, n) == IF Len(s) <= n THEN s ELSE SubSeq(s, 1, n)

(***************************************************************************)
(* String literals of the source                                           *)
(***************************************************************************)
S_user == <<"u", "s", "e", "r">>
S_system == <<"s", "y", "s", "t", "e", "m">>
S_default == <<"d", "e", "f", "a", "u", "l", "t">>
S_unknown == <<"u", "n", "k", "n", "o", "w", "n">>
S_zero == <<"0">>
S_check == <<"U+2713">>
S_empty == <<>>

S_extra == <<"e", "x", "t", "r", "a">>
S_install == <<"i", "n", "s", "t", "a", "l", "l">>
S_flathub == <<"f", "l", "a", "t", "h", "u", "b">>
S_flatpak == <<"f", "l", "a", "t", "p", "a", "k">>
S_version == <<"1", ".", "0">>
S_junk == <<"j", "u", "n", "k">>
S_app == <<"a", "p", "p">>
S_runtime == <<"r", "u", "n", "t", "i", "m", "e">>
S_ref == <<"a", "p", "p", "/", "o", "r", "g", ".", "f", "o", "o", ".", "B", "a", "r", "/", "x", "8", "6", "_", "6", "4", "/", "s", "t", "a", "b", "l", "e">>
S_commit == <<"0", "1", "2", "3", "4", "5", "6", "7", "8", "9", "a", "b", "c", "d">>
S_one == <<"1">>
S_root == <<"r", "o", "o", "t">>
S_me == <<"m", "e">>
S_uid0 == <<"0">>
S_uid1000 == <<"1", "0", "0", "0">>
S_uid4242 == <<"4", "2", "4", "2">>

(***************************************************************************)
(* Installation directories (FlatpakDir) and dir_get_id                    *)
(***************************************************************************)
\* A FlatpakDir as far as the history command reads it: is it the user
\* installation (flatpak_dir_is_user), and its id (flatpak_dir_get_id).
UserDir == [user |-> TRUE, id |-> Str(S_user)]

SystemDefaultDir == [user |-> FALSE, id |-> Str(S_default)]

ExtraSystemDir == [user |-> FALSE, id |-> Str(S_extra)]

\* flatpak_dir_get_system_list: every configured system installation.
SystemList == <<SystemDefaultDir, ExtraSystemDir>>

\* dir_get_id without the test of line 86 for a NULL id.
dir_get_id_null(dir) ==
  IF dir.user THEN Str(S_user)
  ELSE IF g_strcmp0(dir.id, Str(S_default)) # 0 THEN dir.id
  ELSE Str(S_system)

dir_get_id(dir) ==
  IF dir.user THEN Str(S_user)
  ELSE IF g_strcmp0(dir.id, Str(S_default)) # 0
       THEN (IF dir.id.ok THEN dir.id ELSE Str(S_unknown))
  ELSE Str(S_system)

S_gone == <<"g", "o", "n", "e">>

(***************************************************************************)
(* GError                                                                  *)
(***************************************************************************)
NoError == [set |-> FALSE, msg |-> "", arg |-> ""]

Err(msg, arg) == [set |-> TRUE, msg |-> msg, arg |-> arg]

(***************************************************************************)
(* flatpak_option_context_parse: the target directories of a command that  *)
(* passes FLATPAK_BUILTIN_FLAG_ALL_DIRS | FLATPAK_BUILTIN_FLAG_OPTIONAL_REPO *)
(***************************************************************************)
\* opt_installations: NULL (inst.ok = FALSE) or the list of --installation
\* names.
NoInstallations == [ok |-> FALSE, v |-> <<>>]

Installations(v) == [ok |-> TRUE, v |-> v]

\* flatpak_dir_get_system_by_id: the configured system installation of that
\* id, "default" being the default one; none (ok = FALSE) otherwise.
flatpak_dir_get_system_by_id(id) ==
  IF id = S_default THEN [ok |-> TRUE, dir |-> SystemDefaultDir]
  ELSE IF \E i \in 1..Len(SystemList) : SystemList[i].id = Str(id)
       THEN [ok |-> TRUE,
             dir |-> SystemList[CHOOSE i \in 1..Len(SystemList) :
                                  SystemList[i].id = Str(id)]]
  ELSE [ok |-> FALSE, dir |-> SystemDefaultDir]

\* Lines 337-353: the loop over opt_installations, from index i on.
RECURSIVE AddInstallations(_, _, _)
AddInstallations(opt, i, dirs) ==
  IF i > Len(opt.installations.v) THEN [ok |-> TRUE, dirs |-> dirs]
  ELSE IF opt.system /\ g_strcmp0(Str(opt.installations.v[i]), Str(S_default)) = 0
       THEN AddInstallations(opt, i + 1, dirs)
  ELSE LET d == flatpak_dir_get_system_by_id(opt.installations.v[i])
       IN IF ~d.ok THEN [ok |-> FALSE, dirs |-> dirs]
          ELSE AddInstallations(opt, i + 1, Append(dirs, d.dir))

\* Lines 355-376: with no scope option, every installation.
AllDirs ==
  <<SystemDefaultDir, UserDir>> \o
  SelectSeq(SystemList, LAMBDA d : g_strcmp0(d.id, Str(S_default)) # 0)

NoScopeOption(opt) == ~opt.installations.ok /\ ~opt.user /\ ~opt.system

\* Lines 318-428.  listOk and repoOk are what the environment answers to
\* flatpak_dir_get_system_list and flatpak_dir_maybe_ensure_repo.
flatpak_option_context_parse(opt, listOk, repoOk) ==
  LET d1 == IF opt.system \/ (~opt.user /\ ~opt.installations.ok)
            THEN <<SystemDefaultDir>> ELSE <<>>
      d2 == IF opt.user \/ (~opt.system /\ ~opt.installations.ok)
            THEN Append(d1, UserDir) ELSE d1
      d3 == IF opt.installations.ok THEN AddInstallations(opt, 1, d2)
            ELSE [ok |-> TRUE, dirs |-> d2]
  IN IF ~d3.ok
     THEN [ok |-> FALSE, dirs |-> <<>>, err |-> Err("Could not find installation", "")]
     ELSE IF NoScopeOption(opt) /\ ~listOk
     THEN [ok |-> FALSE, dirs |-> <<>>, err |-> Err("system list", "")]
     ELSE LET d4 == IF NoScopeOption(opt) THEN AllDirs ELSE d3.dirs
          IN IF Len(d4) > 0 /\ ~repoOk
             THEN [ok |-> FALSE, dirs |-> <<>>, err |-> Err("ensure repo", "")]
             ELSE [ok |-> TRUE, dirs |-> d4, err |-> NoError]

(***************************************************************************)
(* The journal (sd-journal) as print_history reads it                      *)
(***************************************************************************)
ENOENT == 2

\* The errnos other than ENOENT that sd_journal_get_data answers with.
OtherErrnos == {5}

USEC_PER_SEC == 1000000

Fields ==
  {"INSTALLATION", "_SOURCE_REALTIME_TIMESTAMP", "OPERATION", "REF", "REMOTE",
   "COMMIT", "RESULT", "_UID", "_COMM", "FLATPAK_VERSION"}

\* The name of a field as a C string.
FieldKey(name) ==
  CASE name = "INSTALLATION" -> <<"I", "N", "S", "T", "A", "L", "L", "A", "T", "I", "O", "N">>
    [] name = "_SOURCE_REALTIME_TIMESTAMP" -> <<"_", "S", "O", "U", "R", "C", "E", "_", "R", "E", "A", "L", "T", "I", "M", "E", "_", "T", "I", "M", "E", "S", "T", "A", "M", "P">>
    [] name = "OPERATION" -> <<"O", "P", "E", "R", "A", "T", "I", "O", "N">>
    [] name = "REF" -> <<"R", "E", "F">>
    [] name = "REMOTE" -> <<"R", "E", "M", "O", "T", "E">>
    [] name = "COMMIT" -> <<"C", "O", "M", "M", "I", "T">>
    [] name = "RESULT" -> <<"R", "E", "S", "U", "L", "T">>
    [] name = "_UID" -> <<"_", "U", "I", "D">>
    [] name = "_COMM" -> <<"_", "C", "O", "M", "M">>
    [] name = "FLATPAK_VERSION" -> <<"F", "L", "A", "T", "P", "A", "K", "_", "V", "E", "R", "S", "I", "O", "N">>

\* What sd_journal_get_data answers for one field of the current entry:
\* r = 0 and the data "NAME=value", or r < 0 (-ENOENT: no such field).
JData(name, v) == [r |-> 0, data |-> FieldKey(name) \o <<"=">> \o v]

JErr(e) == [r |-> 0 - e, data |-> <<>>]

\* A field this scan did not ask for.
Unread == [r |-> 1, data |-> <<>>]

\* The times of the entries, in microseconds.
RecordTimes == {1000000, 2000000, 2500000, 3000000, 4000000, 4500000}

\* The values an entry can hold in each field.
FieldValues(name) ==
  CASE name = "INSTALLATION" -> {S_system, S_user, S_extra}
    [] name = "_SOURCE_REALTIME_TIMESTAMP" ->
         {ToDecimal(t) : t \in RecordTimes} \cup {S_junk}
    [] name = "OPERATION" -> {S_install}
    [] name = "REF" -> {S_ref, S_junk}
    [] name = "REMOTE" -> {S_flathub}
    [] name = "COMMIT" -> {S_commit}
    [] name = "RESULT" -> {S_zero, S_one}
    [] name = "_UID" -> {S_uid0, S_uid1000, S_uid4242}
    [] name = "_COMM" -> {S_flatpak}
    [] name = "FLATPAK_VERSION" -> {S_version}

\* Every answer of sd_journal_get_data for a field: a value, not found, or
\* a read error.
FieldOutcomes(name) ==
  {JData(name, v) : v \in FieldValues(name)}
    \cup {JErr(ENOENT)} \cup {JErr(e) : e \in OtherErrnos}

\* get_field (j, name, error): the value as a new string, or NULL; the
\* error is set for every failure but -ENOENT.  A caller that passes a NULL
\* error ignores err.
get_field(rec, name) ==
  LET d == rec[name]
  IN IF d.r < 0
     THEN [val |-> NULL,
           err |-> IF d.r # 0 - ENOENT
                   THEN Err("Failed to get journal data", name)
                   ELSE NoError]
     ELSE [val |-> Str(SubSeq(d.data, Len(FieldKey(name)) + 2, Len(d.data))),
           err |-> NoError]

(***************************************************************************)
(* GLib calls                                                              *)
(***************************************************************************)
\* C integer division truncates toward zero.
CDiv(a, b) == IF a >= 0 THEN a \div b ELSE 0 - ((0 - a) \div b)

NoTime == [ok |-> FALSE, t |-> 0]

Time(t) == [ok |-> TRUE, t |-> t]

\* A GLib function handed a NULL it does not take (g_return_val_if_fail):
\* with the checks compiled in (chk) it warns and returns its default, 0;
\* compiled with G_DISABLE_CHECKS it dereferences the NULL and the process
\* dies.  The result is [v, crash].
Returned(v) == [v |-> v, crash |-> FALSE]

Crashed == [v |-> 0, crash |-> TRUE]

\* g_ascii_strtoll (p, NULL, 10) of a pointer.
strtoll_ptr(p, chk) ==
  IF p.ok THEN Returned(g_ascii_strtoll(p.s))
  ELSE IF chk THEN Returned(0) ELSE Crashed

\* g_date_time_difference (end, begin): end - begin in microseconds.
g_date_time_difference(end, begin, chk) ==
  IF begin.ok /\ end.ok THEN Returned(end.t - begin.t)
  ELSE IF chk THEN Returned(0) ELSE Crashed

\* get_time (j, error): the entry's time, cut to whole seconds.
get_time(rec, chk) ==
  LET f == get_field(rec, "_SOURCE_REALTIME_TIMESTAMP")
  IN IF f.err.set THEN [time |-> NoTime, err |-> f.err, crash |-> FALSE]
     ELSE LET n == strtoll_ptr(f.val, chk)
          IN IF n.crash THEN [time |-> NoTime, err |-> NoError, crash |-> TRUE]
             ELSE [time |-> Time(CDiv(n.v, USEC_PER_SEC) * USEC_PER_SEC),
                   err |-> NoError, crash |-> FALSE]

(***************************************************************************)
(* Collaborators of print_history outside this file                        *)
(***************************************************************************)
\* The part of s before the first sep, and what follows that sep.
RECURSIVE Split(_, _, _)
Split(s, sep, part) ==
  IF s = <<>> THEN <<part>>
  ELSE IF Head(s) = sep THEN <<part>> \o Split(Tail(s), sep, <<>>)
  ELSE Split(Tail(s), sep, Append(part, Head(s)))

\* flatpak_decompose_ref (ref, NULL): kind/name/arch/branch, or NULL for
\* anything else, a NULL ref included.
flatpak_decompose_ref(ref) ==
  IF ~ref.ok THEN [ok |-> FALSE, parts |-> <<>>]
  ELSE LET parts == Split(ref.s, "/", <<>>)
       IN IF Len(parts) = 4 /\ parts[1] \in {S_app, S_runtime}
             /\ \A i \in 2..4 : parts[i] # <<>>
          THEN [ok |-> TRUE, parts |-> parts]
          ELSE [ok |-> FALSE, parts |-> <<>>]

\* getpwuid (uid)->pw_name: the account database of the machine.
getpwuid(uid) ==
  IF uid = 0 THEN Str(S_root)
  ELSE IF uid = 1000 THEN Str(S_me)
  ELSE NULL

\* flatpak_table_printer_add_column (printer, text): the cell added; a NULL
\* text adds the empty string.
add_column(text) == IF text.ok THEN text.s ELSE S_empty

\* flatpak_table_printer_add_column_len (printer, text, len)
add_column_len(text, len) == IF text.ok THEN g_strndup(text.s, len) ELSE S_empty

TwoDigits(n) == <<Digits[(n \div 10) + 1], Digits[(n % 10) + 1]>>

\* g_date_time_format (time, "%X") in the C locale, the local zone being
\* UTC: HH:MM:SS.
FormatX(t) ==
  LET secs == (t \div USEC_PER_SEC) % 86400
  IN TwoDigits(secs \div 3600) \o <<":">> \o TwoDigits((secs % 3600) \div 60)
       \o <<":">> \o TwoDigits(secs % 60)

(***************************************************************************)
(* The column registry                                                     *)
(***************************************************************************)
\* all_columns: name, title, all, def.
all_columns ==
  << [name |-> "time", title |-> "Time", all |-> TRUE, def |-> TRUE],
     [name |-> "change", title |-> "Change", all |-> TRUE, def |-> TRUE],
     [name |-> "ref", title |-> "Ref", all |-> FALSE, def |-> FALSE],
     [name |-> "application", title |-> "Application", all |-> TRUE, def |-> TRUE],
     [name |-> "arch", title |-> "Architecture", all |-> TRUE, def |-> FALSE],
     [name |-> "branch", title |-> "Branch", all |-> TRUE, def |-> TRUE],
     [name |-> "installation", title |-> "Installation", all |-> TRUE, def |-> TRUE],
     [name |-> "remote", title |-> "Remote", all |-> TRUE, def |-> TRUE],
     [name |-> "commit", title |-> "Commit", all |-> TRUE, def |-> FALSE],
     [name |-> "result", title |-> "Result", all |-> TRUE, def |-> TRUE],
     [name |-> "user", title |-> "User", all |-> TRUE, def |-> FALSE],
     [name |-> "tool", title |-> "Tool", all |-> TRUE, def |-> FALSE],
     [name |-> "version", title |-> "Version", all |-> TRUE, def |-> FALSE] >>

ColumnNames == {all_columns[i].name : i \in 1..Len(all_columns)}

ColumnOf(name) ==
  all_columns[CHOOSE i \in 1..Len(all_columns) : all_columns[i].name = name]

\* The journal field a column is projected from.
ColumnField(name) ==
  CASE name = "time" -> "_SOURCE_REALTIME_TIMESTAMP"
    [] name = "change" -> "OPERATION"
    [] name \in {"ref", "application", "arch", "branch"} -> "REF"
    [] name = "installation" -> "INSTALLATION"
    [] name = "remote" -> "REMOTE"
    [] name = "commit" -> "COMMIT"
    [] name = "result" -> "RESULT"
    [] name = "user" -> "_UID"
    [] name = "tool" -> "_COMM"
    [] name = "version" -> "FLATPAK_VERSION"

(***************************************************************************)
(* Calendar instants (GDateTime) as parse_time makes them                  *)
(***************************************************************************)
\* An instant as a day number (days since 1970-01-01), the second of that
\* day and the microsecond of that second; the local zone is UTC.
NoDateTime == [ok |-> FALSE, day |-> 0, sec |-> 0, usec |-> 0]

DateTime(day, sec, usec) == [ok |-> TRUE, day |-> day, sec |-> sec, usec |-> usec]

\* The day number of day d of month mp (March being 0) of year yy (a year
\* that begins in March), in the proleptic Gregorian calendar.
DayNumber(yy, mp, d) ==
  (yy \div 400) * 146097 + (yy % 400) * 365 + ((yy % 400) \div 4)
    - ((yy % 400) \div 100) + ((153 * mp + 2) \div 5) + d - 1 - 719468

\* The day number of a date.
days_from_civil(y, m, d) ==
  DayNumber(IF m <= 2 THEN y - 1 ELSE y, IF m > 2 THEN m - 3 ELSE m + 9, d)

\* The date of day doy (from 0) of the year y0 that begins in March, mp
\* being its month (March being 0).
DateOf(y0, doy, mp) ==
  [year |-> y0 + (IF mp >= 10 THEN 1 ELSE 0),
   month |-> IF mp < 10 THEN mp + 3 ELSE mp - 9,
   mday |-> doy - ((153 * mp + 2) \div 5) + 1]

\* The date of day doe (from 0) of a 400-year era, yoe being its year of
\* the era.
DateInEra(era, doe, yoe) ==
  DateOf(yoe + era * 400,
         doe - (365 * yoe + (yoe \div 4) - (yoe \div 100)),
         (5 * (doe - (365 * yoe + (yoe \div 4) - (yoe \div 100))) + 2) \div 153)

\* g_date_time_get_year, g_date_time_get_month, g_date_time_get_day_of_month
\* of the day z days after 0000-03-01.
CivilOf(z) ==
  DateInEra(z \div 146097, z % 146097,
            ((z % 146097) - ((z % 146097) \div 1460) + ((z % 146097) \div 36524)
               - ((z % 146097) \div 146096)) \div 365)

civil_from_days(day) == CivilOf(day + 719468)

days_in_month(y, m) ==
  IF m = 2
  THEN (IF y % 4 = 0 /\ (y % 100 # 0 \/ y % 400 = 0) THEN 29 ELSE 28)
  ELSE IF m \in {4, 6, 9, 11} THEN 30 ELSE 31

\* g_date_time_new_local: NULL for a date or a time of day that does not
\* exist.
g_date_time_new_local(y, m, d, hour, minute, seconds) ==
  IF /\ y \in 1..9999 /\ m \in 1..12 /\ d >= 1 /\ d <= days_in_month(y, m)
     /\ hour \in 0..23 /\ minute \in 0..59 /\ seconds \in 0..59
  THEN DateTime(days_from_civil(y, m, d), hour * 3600 + minute * 60 + seconds, 0)
  ELSE NoDateTime

\* g_date_time_add_full (dt, 0, 0, days, hours, minutes, seconds)
g_date_time_add_full(dt, days, hours, minutes, seconds) ==
  LET s == dt.sec + hours * 3600 + minutes * 60 + seconds
  IN DateTime(dt.day + days + (s \div 86400), s % 86400, dt.usec)

(***************************************************************************)
(* strptime                                                                *)
(***************************************************************************)
\* The formats parse_time tries, in its order; an item is a conversion or a
\* literal character.
fmts ==
  << <<"%H", ":", "%M">>,
     <<"%H", ":", "%M", ":", "%S">>,
     <<"%Y", "-", "%m", "-", "%d">>,
     <<"%Y", "-", "%m", "-", "%d", " ", "%H", ":", "%M", ":", "%S">> >>

RECURSIVE SkipSpaces(_)
SkipSpaces(s) ==
  IF s # <<>> /\ Head(s) = " " THEN SkipSpaces(Tail(s)) ELSE s

\* The digits of a number of strptime, s beginning with a digit: at most n
\* of them, and no more once ten times the value exceeds to.
RECURSIVE ReadNumber(_, _, _, _)
ReadNumber(s, val, n, to) ==
  IF /\ n - 1 > 0
     /\ (val * 10 + DigitVal(Head(s))) * 10 <= to
     /\ Tail(s) # <<>>
     /\ IsDigit(Head(Tail(s)))
  THEN ReadNumber(Tail(s), val * 10 + DigitVal(Head(s)), n - 1, to)
  ELSE [val |-> val * 10 + DigitVal(Head(s)), rest |-> Tail(s)]

\* The number read is in from..to.
InRange(r, from, to) ==
  [ok |-> r.val >= from /\ r.val <= to, val |-> r.val, rest |-> r.rest]

\* A number of strptime in from..to, s being past the white space.
NumberAt(s, from, to, n) ==
  IF s = <<>> \/ ~IsDigit(Head(s)) THEN [ok |-> FALSE, val |-> 0, rest |-> s]
  ELSE InRange(ReadNumber(s, 0, n, to), from, to)

\* A number of strptime in from..to after optional white space.
get_number(s, from, to, n) == NumberAt(SkipSpaces(s), from, to, n)

\* The number a conversion of strptime reads.
Conversion(c, s) ==
  CASE c = "%H" -> get_number(s, 0, 23, 2)
    [] c = "%M" -> get_number(s, 0, 59, 2)
    [] c = "%S" -> get_number(s, 0, 61, 2)
    [] c = "%Y" -> get_number(s, 0, 9999, 4)
    [] c = "%m" -> get_number(s, 1, 12, 2)
    [] c = "%d" -> get_number(s, 1, 31, 2)

\* The field of struct tm a conversion sets.
SetField(tm, c, val) ==
  CASE c = "%H" -> [tm EXCEPT !.hour = val]
    [] c = "%M" -> [tm EXCEPT !.min = val]
    [] c = "%S" -> [tm EXCEPT !.sec = val]
    [] c = "%Y" -> [tm EXCEPT !.year = val - 1900]
    [] c = "%m" -> [tm EXCEPT !.mon = val - 1]
    [] c = "%d" -> [tm EXCEPT !.mday = val]

\* strptime (s, fmt, &tm) from item k of fmt on: the rest of s and the tm
\* filled in, or NULL (ok = FALSE).  Converted goes on after the number num
\* of the conversion fmt[k].
RECURSIVE strptime(_, _, _, _)
RECURSIVE Converted(_, _, _, _, _)
Converted(s, fmt, k, tm, num) ==
  IF num.ok THEN strptime(num.rest, fmt, k + 1, SetField(tm, fmt[k], num.val))
  ELSE [ok |-> FALSE, rest |-> s, tm |-> tm]

strptime(s, fmt, k, tm) ==
  IF k > Len(fmt) THEN [ok |-> TRUE, rest |-> s, tm |-> tm]
  ELSE IF fmt[k] = " " THEN strptime(SkipSpaces(s), fmt, k + 1, tm)
  ELSE IF fmt[k] \in {":", "-"}
  THEN (IF s # <<>> /\ Head(s) = fmt[k] THEN strptime(Tail(s), fmt, k + 1, tm)
        ELSE [ok |-> FALSE, rest |-> s, tm |-> tm])
  ELSE Converted(s, fmt, k, tm, Conversion(fmt[k], s))

(***************************************************************************)
(* parse_time                                                              *)
(***************************************************************************)
\* The number of digits s begins with.
RECURSIVE LeadingDigits(_)
LeadingDigits(s) ==
  IF s = <<>> \/ ~IsDigit(Head(s)) THEN 0 ELSE 1 + LeadingDigits(Tail(s))

\* g_ascii_strtoll (s, &end, 10): the number and what follows it; with no
\* digit the number is 0 and end is s itself.  body is s past its sign.
StrtollOf(s, body) ==
  IF LeadingDigits(body) = 0 THEN [n |-> 0, end |-> s]
  ELSE [n |-> IF Head(s) = "-" THEN 0 - ParseDigits(body, 0)
              ELSE ParseDigits(body, 0),
        end |-> SubSeq(body, LeadingDigits(body) + 1, Len(body))]

strtoll_end(s) ==
  StrtollOf(s, IF s # <<>> /\ Head(s) \in {"-", "+"} THEN Tail(s) ELSE s)

\* g_strsplit (s, " ", -1): no token at all for the empty string.
g_strsplit(s) == IF s = <<>> THEN <<>> ELSE Split(s, " ", <<>>)

\* The unit suffixes of lines 374-388.
Units ==
  [days |-> {<<"d">>, <<"d", "a", "y">>, <<"d", "a", "y", "s">>},
   hours |-> {<<"h">>, <<"h", "o", "u", "r">>, <<"h", "o", "u", "r", "s">>},
   minutes |-> {<<"m">>, <<"m", "i", "n", "u", "t", "e">>,
                <<"m", "i", "n", "u", "t", "e", "s">>},
   seconds |-> {<<"s">>, <<"s", "e", "c", "o", "n", "d">>,
                <<"s", "e", "c", "o", "n", "d", "s">>}]

IsUnit(end, u) == \E x \in Units[u] : g_strcmp0(Str(end), Str(x)) = 0

\* Lines 354-359: the struct tm strptime is handed, c being the date of now.
InitialTm(c) ==
  [year |-> c.year, mon |-> c.month, mday |-> c.mday,
   hour |-> 0, min |-> 0, sec |-> 0]

\* Lines 349-364: the first format that takes the whole text decides; r is
\* what strptime answered for format i.
RECURSIVE ParseAbsolute(_, _, _)
RECURSIVE Matched(_, _, _, _)
Matched(text, now, i, r) ==
  IF r.ok /\ r.rest = <<>>
  THEN [matched |-> TRUE,
        time |-> g_date_time_new_local(r.tm.year + 1900, r.tm.mon + 1,
                                       r.tm.mday, r.tm.hour, r.tm.min,
                                       r.tm.sec)]
  ELSE ParseAbsolute(text, now, i + 1)

ParseAbsolute(text, now, i) ==
  IF i > Len(fmts) THEN [matched |-> FALSE, time |-> NoDateTime]
  ELSE Matched(text, now, i,
               strptime(text, fmts[i], 1, InitialTm(civil_from_days(now.day))))

\* Lines 368-392: the tokens from i on; acc holds days, hours, minutes and
\* seconds, and r is the number and the unit of token i.
RECURSIVE ParseRelative(_, _, _)
RECURSIVE Token(_, _, _, _)
Token(parts, i, acc, r) ==
  IF IsUnit(r.end, "days")
  THEN ParseRelative(parts, i + 1, [acc EXCEPT !.days = r.n])
  ELSE IF IsUnit(r.end, "hours")
  THEN ParseRelative(parts, i + 1, [acc EXCEPT !.hours = r.n])
  ELSE IF IsUnit(r.end, "minutes")
  THEN ParseRelative(parts, i + 1, [acc EXCEPT !.minutes = r.n])
  ELSE IF IsUnit(r.end, "seconds")
  THEN ParseRelative(parts, i + 1, [acc EXCEPT !.seconds = r.n])
  ELSE [ok |-> FALSE, acc |-> acc]

ParseRelative(parts, i, acc) ==
  IF i > Len(parts) THEN [ok |-> TRUE, acc |-> acc]
  ELSE Token(parts, i, acc, strtoll_end(parts[i]))

\* Line 394: now less the duration, or NULL for a token that is no duration.
RelativeTime(now, r) ==
  IF ~r.ok THEN NoDateTime
  ELSE g_date_time_add_full(now, 0 - r.acc.days, 0 - r.acc.hours,
                            0 - r.acc.minutes, 0 - r.acc.seconds)

\* Lines 362-394, a being what the absolute formats made of the text.
AbsoluteOrRelative(text, now, a) ==
  IF a.matched THEN a.time
  ELSE RelativeTime(now,
                    ParseRelative(g_strsplit(text), 1,
                                  [days |-> 0, hours |-> 0, minutes |-> 0,
                                   seconds |-> 0]))

\* parse_time (text), now being what g_date_time_new_now_local answers: the
\* instant, or NULL.
parse_time(text, now) == AbsoluteOrRelative(text, now, ParseAbsolute(text, now, 1))

(***************************************************************************)
(* print_history: one entry of the journal                                 *)
(***************************************************************************)
ScopeInclude_absent_matches(rec, dirs) ==
  LET installation == get_field(rec, "INSTALLATION").val
  IN \/ ~installation.ok
     \/ \E i \in 1..Len(dirs.v) :
          g_strcmp0(dir_get_id(dirs.v[i]), installation) = 0

\* Lines 172-188: does the entry belong to one of dirs.
ScopeInclude(rec, dirs) ==
  LET installation == get_field(rec, "INSTALLATION").val
  IN \E i \in 1..Len(dirs.v) :
       g_strcmp0(dir_get_id(dirs.v[i]), installation) = 0

\* Lines 190-199: "pass", "skip", or "crash".
WindowStep(rec, since, until, chk) ==
  LET g == get_time(rec, chk)
      time == g.time
      d1 == g_date_time_difference(since, time, chk)
      d2 == g_date_time_difference(time, until, chk)
  IN IF g.crash THEN "crash"
     ELSE IF ~time.ok THEN "pass"
     ELSE IF d1.crash THEN "crash"
     ELSE IF d1.v >= 0 THEN "skip"
     ELSE IF d2.crash THEN "crash"
     ELSE IF d2.v >= 0 THEN "skip"
     ELSE "pass"

Cell(c) == [status |-> "cell", cell |-> c, err |-> NoError]

Failed(e) == [status |-> "error", cell |-> S_empty, err |-> e]

Died == [status |-> "crash", cell |-> S_empty, err |-> NoError]

\* Lines 264-273.
ResultCell(result) ==
  IF g_strcmp0(result, Str(S_zero)) # 0 THEN S_check ELSE S_empty

\* Lines 203-300: the cell of one column, or the error that ends the scan.
ProjectColumn(name, rec, chk) ==
  IF name = "time"
  THEN LET g == get_time(rec, chk)
       IN IF g.crash THEN Died
          ELSE IF g.err.set THEN Failed(g.err)
          ELSE Cell(FormatX(g.time.t))
  ELSE LET f == get_field(rec, ColumnField(name))
       IN IF f.err.set THEN Failed(f.err)
          ELSE IF name \in {"change", "ref", "installation", "remote", "tool", "version"}
               THEN Cell(add_column(f.val))
          ELSE IF name \in {"application", "arch", "branch"}
               THEN LET pref == flatpak_decompose_ref(f.val)
                        i == CASE name = "application" -> 2
                               [] name = "arch" -> 3
                               [] name = "branch" -> 4
                    IN Cell(IF pref.ok THEN pref.parts[i] ELSE S_empty)
          ELSE IF name = "commit" THEN Cell(add_column_len(f.val, 12))
          ELSE IF name = "result" THEN Cell(ResultCell(f.val))
          ELSE IF name = "user"
               THEN LET uid == strtoll_ptr(f.val, chk)
                    IN IF uid.crash THEN Died
                       ELSE LET pwd == getpwuid(uid.v)
                            IN Cell(IF pwd.ok THEN pwd.s ELSE add_column(f.val))
          ELSE [status |-> "nocell", cell |-> S_empty, err |-> NoError]

\* A projection that adds no cell for an empty value.
RECURSIVE ProjectRow_skips_empty(_, _, _, _, _, _)
ProjectRow_skips_empty(columns, k, rec, chk, cells, reads) ==
  IF k > Len(columns)
  THEN [status |-> "row", cells |-> cells, err |-> NoError, reads |-> reads]
  ELSE LET p == ProjectColumn(columns[k], rec, chk)
           rd == Append(reads, ColumnField(columns[k]))
       IN IF p.status = "cell"
          THEN ProjectRow_skips_empty(columns, k + 1, rec, chk,
                                      IF p.cell = S_empty THEN cells
                                      ELSE Append(cells, p.cell), rd)
          ELSE IF p.status = "nocell"
          THEN ProjectRow_skips_empty(columns, k + 1, rec, chk, cells, reads)
          ELSE [status |-> p.status, cells |-> cells, err |-> p.err, reads |-> rd]

\* Lines 201-301: the cells of the columns from k on, added to cells.
RECURSIVE ProjectRow(_, _, _, _, _, _)
ProjectRow(columns, k, rec, chk, cells, reads) ==
  IF k > Len(columns)
  THEN [status |-> "row", cells |-> cells, err |-> NoError, reads |-> reads]
  ELSE LET p == ProjectColumn(columns[k], rec, chk)
           rd == Append(reads, ColumnField(columns[k]))
       IN IF p.status = "cell"
          THEN ProjectRow(columns, k + 1, rec, chk, Append(cells, p.cell), rd)
          ELSE IF p.status = "nocell"
          THEN ProjectRow(columns, k + 1, rec, chk, cells, reads)
          ELSE [status |-> p.status, cells |-> cells, err |-> p.err, reads |-> rd]

\* A loop that tests the time window before the scope.
ProcessEntry_window_first(rec, dirs, since, until, columns, chk) ==
  LET scoped == dirs.ok
      windowed == since.ok \/ until.ok
      r1 == IF windowed THEN <<"_SOURCE_REALTIME_TIMESTAMP">> ELSE <<>>
      r2 == IF scoped THEN Append(r1, "INSTALLATION") ELSE r1
      w == IF windowed THEN WindowStep(rec, since, until, chk) ELSE "pass"
  IN IF w = "skip"
     THEN [status |-> "skip_time", cells |-> <<>>, err |-> NoError, reads |-> r1]
     ELSE IF w = "crash"
     THEN [status |-> "crash", cells |-> <<>>, err |-> NoError, reads |-> r1]
     ELSE IF scoped /\ ~ScopeInclude(rec, dirs)
     THEN [status |-> "skip_scope", cells |-> <<>>, err |-> NoError, reads |-> r2]
     ELSE ProjectRow(columns, 1, rec, chk, <<>>, r2)

\* Lines 170-303: one turn of the loop.  status is "skip_scope",
\* "skip_time", "row", "error" (return FALSE) or "crash".
ProcessEntry(rec, dirs, since, until, columns, chk) ==
  LET scoped == dirs.ok
      windowed == since.ok \/ until.ok
      r1 == IF scoped THEN <<"INSTALLATION">> ELSE <<>>
      r2 == IF windowed THEN Append(r1, "_SOURCE_REALTIME_TIMESTAMP") ELSE r1
      w == IF windowed THEN WindowStep(rec, since, until, chk) ELSE "pass"
  IN IF scoped /\ ~ScopeInclude(rec, dirs)
     THEN [status |-> "skip_scope", cells |-> <<>>, err |-> NoError, reads |-> r1]
     ELSE IF w = "skip"
     THEN [status |-> "skip_time", cells |-> <<>>, err |-> NoError, reads |-> r2]
     ELSE IF w = "crash"
     THEN [status |-> "crash", cells |-> <<>>, err |-> NoError, reads |-> r2]
     ELSE ProjectRow(columns, 1, rec, chk, <<>>, r2)

(***************************************************************************)
(* The commands of flatpak (flatpak-main.c)                                *)
(***************************************************************************)
S_history == <<"h", "i", "s", "t", "o", "r", "y">>

\* A word that names no command.
S_histroy == <<"h", "i", "s", "t", "r", "o", "y">>

\* The table of commands: a name and a function, or the title of a section
\* of the help text and no function ("NULL").
commands ==
  << [name |-> Str(<<" ", "M", "a", "n", "a", "g", "e", " ", "i", "n", "s", "t", "a", "l", "l", "e", "d", " ", "a", "p", "p", "l", "i", "c", "a", "t", "i", "o", "n", "s", " ", "a", "n", "d", " ", "r", "u", "n", "t", "i", "m", "e", "s">>),
      fn |-> "NULL", deprecated |-> FALSE],
     [name |-> Str(<<"i", "n", "s", "t", "a", "l", "l">>),
      fn |-> "flatpak_builtin_install", deprecated |-> FALSE],
     [name |-> Str(<<"u", "p", "d", "a", "t", "e">>),
      fn |-> "flatpak_builtin_update", deprecated |-> FALSE],
     [name |-> Str(<<"u", "n", "i", "n", "s", "t", "a", "l", "l">>),
      fn |-> "flatpak_builtin_uninstall", deprecated |-> FALSE],
     [name |-> Str(<<"r", "e", "m", "o", "v", "e">>),
      fn |-> "flatpak_builtin_uninstall", deprecated |-> TRUE],
     [name |-> Str(<<"l", "i", "s", "t">>),
      fn |-> "flatpak_builtin_list", deprecated |-> FALSE],
     [name |-> Str(<<"i", "n", "f", "o">>),
      fn |-> "flatpak_builtin_info", deprecated |-> FALSE],
     [name |-> Str(<<"h", "i", "s", "t", "o", "r", "y">>),
      fn |-> "flatpak_builtin_history", deprecated |-> FALSE],
     [name |-> Str(<<"c", "o", "n", "f", "i", "g">>),
      fn |-> "flatpak_builtin_config", deprecated |-> FALSE],
     [name |-> Str(<<"r", "e", "p", "a", "i", "r">>),
      fn |-> "flatpak_builtin_repair", deprecated |-> FALSE],
     [name |-> Str(<<"c", "r", "e", "a", "t", "e", "-", "u", "s", "b">>),
      fn |-> "flatpak_builtin_create_usb", deprecated |-> FALSE],
     [name |-> Str(<<"\n", " ", "F", "i", "n", "d", "i", "n", "g", " ", "a", "p", "p", "l", "i", "c", "a", "t", "i", "o", "n", "s", " ", "a", "n", "d", " ", "r", "u", "n", "t", "i", "m", "e", "s">>),
      fn |-> "NULL", deprecated |-> FALSE],
     [name |-> Str(<<"s", "e", "a", "r", "c", "h">>),
      fn |-> "flatpak_builtin_search", deprecated |-> FALSE],
     [name |-> Str(<<"\n", " ", "R", "u", "n", "n", "i", "n", "g", " ", "a", "p", "p", "l", "i", "c", "a", "t", "i", "o", "n", "s">>),
      fn |-> "NULL", deprecated |-> FALSE],
     [name |-> Str(<<"r", "u", "n">>),
      fn |-> "flatpak_builtin_run", deprecated |-> FALSE],
     [name |-> Str(<<"o", "v", "e", "r", "r", "i", "d", "e">>),
      fn |-> "flatpak_builtin_override", deprecated |-> FALSE],
     [name |-> Str(<<"m", "a", "k", "e", "-", "c", "u", "r", "r", "e", "n", "t">>),
      fn |-> "flatpak_builtin_make_current_app", deprecated |-> FALSE],
     [name |-> Str(<<"e", "n", "t", "e", "r">>),
      fn |-> "flatpak_builtin_enter", deprecated |-> FALSE],
     [name |-> Str(<<"p", "s">>),
      fn |-> "flatpak_builtin_ps", deprecated |-> FALSE],
     [name |-> Str(<<"k", "i", "l", "l">>),
      fn |-> "flatpak_builtin_kill", deprecated |-> FALSE],
     [name |-> Str(<<"\n", " ", "M", "a", "n", "a", "g", "e", " ", "f", "i", "l", "e", " ", "a", "c", "c", "e", "s", "s">>),
      fn |-> "NULL", deprecated |-> FALSE],
     [name |-> Str(<<"d", "o", "c", "u", "m", "e", "n", "t", "s">>),
      fn |-> "flatpak_builtin_document_list", deprecated |-> FALSE],
     [name |-> Str(<<"d", "o", "c", "u", "m", "e", "n", "t", "-", "e", "x", "p", "o", "r", "t">>),
      fn |-> "flatpak_builtin_document_export", deprecated |-> FALSE],
     [name |-> Str(<<"d", "o", "c", "u", "m", "e", "n", "t", "-", "u", "n", "e", "x", "p", "o", "r", "t">>),
      fn |-> "flatpak_builtin_document_unexport", deprecated |-> FALSE],
     [name |-> Str(<<"d", "o", "c", "u", "m", "e", "n", "t", "-", "i", "n", "f", "o">>),
      fn |-> "flatpak_builtin_document_info", deprecated |-> FALSE],
     [name |-> Str(<<"d", "o", "c", "u", "m", "e", "n", "t", "-", "l", "i", "s", "t">>),
      fn |-> "flatpak_builtin_document_list", deprecated |-> TRUE],
     [name |-> Str(<<"\n", " ", "M", "a", "n", "a", "g", "e", " ", "d", "y", "n", "a", "m", "i", "c", " ", "p", "e", "r", "m", "i", "s", "s", "i", "o", "n", "s">>),
      fn |-> "NULL", deprecated |-> FALSE],
     [name |-> Str(<<"p", "e", "r", "m", "i", "s", "s", "i", "o", "n", "s">>),
      fn |-> "flatpak_builtin_permission_list", deprecated |-> FALSE],
     [name |-> Str(<<"p", "e", "r", "m", "i", "s", "s", "i", "o", "n", "-", "r", "e", "m", "o", "v", "e">>),
      fn |-> "flatpak_builtin_permission_remove", deprecated |-> FALSE],
     [name |-> Str(<<"p", "e", "r", "m", "i", "s", "s", "i", "o", "n", "-", "l", "i", "s", "t">>),
      fn |-> "flatpak_builtin_permission_list", deprecated |-> TRUE],
     [name |-> Str(<<"p", "e", "r", "m", "i", "s", "s", "i", "o", "n", "-", "s", "h", "o", "w">>),
      fn |-> "flatpak_builtin_permission_show", deprecated |-> FALSE],
     [name |-> Str(<<"p", "e", "r", "m", "i", "s", "s", "i", "o", "n", "-", "r", "e", "s", "e", "t">>),
      fn |-> "flatpak_builtin_permission_reset", deprecated |-> FALSE],
     [name |-> Str(<<"\n", " ", "M", "a", "n", "a", "g", "e", " ", "r", "e", "m", "o", "t", "e", " ", "r", "e", "p", "o", "s", "i", "t", "o", "r", "i", "e", "s">>),
      fn |-> "NULL", deprecated |-> FALSE],
     [name |-> Str(<<"r", "e", "m", "o", "t", "e", "s">>),
      fn |-> "flatpak_builtin_remote_list", deprecated |-> FALSE],
     [name |-> Str(<<"r", "e", "m", "o", "t", "e", "-", "a", "d", "d">>),
      fn |-> "flatpak_builtin_remote_add", deprecated |-> FALSE],
     [name |-> Str(<<"r", "e", "m", "o", "t", "e", "-", "m", "o", "d", "i", "f", "y">>),
      fn |-> "flatpak_builtin_remote_modify", deprecated |-> FALSE],
     [name |-> Str(<<"r", "e", "m", "o", "t", "e", "-", "d", "e", "l", "e", "t", "e">>),
      fn |-> "flatpak_builtin_remote_delete", deprecated |-> FALSE],
     [name |-> Str(<<"r", "e", "m", "o", "t", "e", "-", "l", "i", "s", "t">>),
      fn |-> "flatpak_builtin_remote_list", deprecated |-> TRUE],
     [name |-> Str(<<"r", "e", "m", "o", "t", "e", "-", "l", "s">>),
      fn |-> "flatpak_builtin_remote_ls", deprecated |-> FALSE],
     [name |-> Str(<<"r", "e", "m", "o", "t", "e", "-", "i", "n", "f", "o">>),
      fn |-> "flatpak_builtin_remote_info", deprecated |-> FALSE],
     [name |-> Str(<<"\n", " ", "B", "u", "i", "l", "d", " ", "a", "p", "p", "l", "i", "c", "a", "t", "i", "o", "n", "s">>),
      fn |-> "NULL", deprecated |-> FALSE],
     [name |-> Str(<<"b", "u", "i", "l", "d", "-", "i", "n", "i", "t">>),
      fn |-> "flatpak_builtin_build_init", deprecated |-> FALSE],
     [name |-> Str(<<"b", "u", "i", "l", "d">>),
      fn |-> "flatpak_builtin_build", deprecated |-> FALSE],
     [name |-> Str(<<"b", "u", "i", "l", "d", "-", "f", "i", "n", "i", "s", "h">>),
      fn |-> "flatpak_builtin_build_finish", deprecated |-> FALSE],
     [name |-> Str(<<"b", "u", "i", "l", "d", "-", "e", "x", "p", "o", "r", "t">>),
      fn |-> "flatpak_builtin_build_export", deprecated |-> FALSE],
     [name |-> Str(<<"b", "u", "i", "l", "d", "-", "b", "u", "n", "d", "l", "e">>),
      fn |-> "flatpak_builtin_build_bundle", deprecated |-> FALSE],
     [name |-> Str(<<"b", "u", "i", "l", "d", "-", "i", "m", "p", "o", "r", "t", "-", "b", "u", "n", "d", "l", "e">>),
      fn |-> "flatpak_builtin_build_import", deprecated |-> FALSE],
     [name |-> Str(<<"b", "u", "i", "l", "d", "-", "s", "i", "g", "n">>),
      fn |-> "flatpak_builtin_build_sign", deprecated |-> FALSE],
     [name |-> Str(<<"b", "u", "i", "l", "d", "-", "u", "p", "d", "a", "t", "e", "-", "r", "e", "p", "o">>),
      fn |-> "flatpak_builtin_build_update_repo", deprecated |-> FALSE],
     [name |-> Str(<<"b", "u", "i", "l", "d", "-", "c", "o", "m", "m", "i", "t", "-", "f", "r", "o", "m">>),
      fn |-> "flatpak_builtin_build_commit_from", deprecated |-> FALSE],
     [name |-> Str(<<"r", "e", "p", "o">>),
      fn |-> "flatpak_builtin_repo", deprecated |-> FALSE] >>

\* The { NULL } entry that ends the table.
NoCommand == [name |-> NULL, fn |-> "NULL", deprecated |-> FALSE]

\* extract_command: the first entry with a function whose name is the
\* command word, or the end of the table; command_name is the first
\* argument that does not begin with '-', or NULL.
extract_command(command_name) ==
  LET hits == {i \in 1..Len(commands) :
                 /\ commands[i].fn # "NULL"
                 /\ g_strcmp0(command_name, commands[i].name) = 0}
  IN IF hits = {} THEN NoCommand
     ELSE commands[CHOOSE i \in hits : \A k \in hits : i <= k]

(***************************************************************************)
(* find_similar_command                                                    *)
(***************************************************************************)
G_MAXINT == 2147483647

\* The element of a set of one element: The({F(x) : x \in {e}}) is F(e)
\* with e computed once.
The(S) == CHOOSE x \in S : TRUE

\* The least element of a set of numbers.
Min(S) == CHOOSE x \in S : \A y \in S : x <= y

\* A row of the table of edit distances, from t: t[k] is the least distance
\* to the first k-1 characters of b that ends with a deletion or a
\* replacement, and the characters after them are insertions.
RowOf(t) == [j \in 1..Len(t) |-> Min({t[k] + (j - k) : k \in 1..j})]

\* The distances of the first i characters of a, ca being the i-th, to the
\* first 0..Len(b) characters of b; prev is the row of the first i-1.
LevRow(prev, ca, b, i) ==
  The({RowOf(t) :
         t \in {[k \in 1..(Len(b) + 1) |->
                   IF k = 1 THEN i
                   ELSE Min({prev[k] + 1,
                             prev[k - 1] + (IF ca = b[k - 1] THEN 0 ELSE 1)})]}})

RECURSIVE LevRows(_, _, _, _)
LevRows(a, b, i, prev) ==
  IF i > Len(a) THEN prev[Len(b) + 1]
  ELSE The({LevRows(a, b, i + 1, row) : row \in {LevRow(prev, a[i], b, i)}})

\* flatpak_levenshtein_distance (flatpak-utils.c): the least number of
\* characters to insert, delete or replace to make b of a.
flatpak_levenshtein_distance(a, b) ==
  The({LevRows(a, b, 1, row) : row \in {[j \in 1..(Len(b) + 1) |-> j - 1]}})

\* Lines 495-503: the first entry whose distance is the least, a distance
\* of G_MAXINT or more leaving the first entry of the table; dist holds
\* the distances of the entries.
Nearest(dist) ==
  IF \A i \in 1..Len(dist) : dist[i] >= G_MAXINT THEN 1
  ELSE CHOOSE i \in 1..Len(dist) :
         \A k \in 1..Len(dist) :
           dist[i] <= dist[k] /\ (dist[k] = dist[i] => i <= k)

\* find_similar_command (word): the name of the first entry of the table
\* that is nearest to word.
find_similar_command(word) ==
  The({commands[Nearest(dist)].name :
         dist \in {[i \in 1..Len(commands) |->
                      flatpak_levenshtein_distance(word, commands[i].name.s)]}})

(***************************************************************************)
(* handle_column_args (flatpak-builtins-utils.c)                           *)
(***************************************************************************)
\* The columns shown when none is asked for, in the order of the registry.
DefaultColumns ==
  LET d == SelectSeq(all_columns, LAMBDA c : c.def)
  IN [i \in 1..Len(d) |-> d[i].name]

NoCols == [ok |-> FALSE, v |-> <<>>]

Cols(v) == [ok |-> TRUE, v |-> v]

\* handle_column_args (all_columns, opt_show_cols, FALSE, opt_cols, error):
\* with --show-columns the columns are listed and the list returned is
\* empty; else the default columns, or the columns asked for, in the order
\* asked; a key that is no column is an error (NULL is returned).
handle_column_args(opt_show_cols, opt_cols) ==
  IF opt_show_cols
  THEN [ok |-> TRUE, columns |-> <<>>, shown |-> TRUE, err |-> NoError]
  ELSE IF ~opt_cols.ok \/ opt_cols.v = <<>>
  THEN [ok |-> TRUE, columns |-> DefaultColumns, shown |-> FALSE, err |-> NoError]
  ELSE IF \E i \in 1..Len(opt_cols.v) : opt_cols.v[i] \notin ColumnNames
  THEN [ok |-> FALSE, columns |-> <<>>, shown |-> FALSE,
        err |-> Err("Unknown column",
                    opt_cols.v[CHOOSE i \in 1..Len(opt_cols.v) :
                                 /\ opt_cols.v[i] \notin ColumnNames
                                 /\ \A k \in 1..(i - 1) :
                                      opt_cols.v[k] \in ColumnNames])]
  ELSE [ok |-> TRUE, columns |-> opt_cols.v, shown |-> FALSE, err |-> NoError]

(***************************************************************************)
(* The state of one run of "flatpak history"                               *)
(***************************************************************************)
VARIABLES
  pc,           \* where the run is: "history", "print_history", "add_match",
                \* "scan", "done" (returned) or "crashed"
  glib_checks,  \* whether GLib's g_return_if_fail checks are compiled in
  have_libsystemd, \* whether the build has HAVE_LIBSYSTEMD
  argv,         \* the command line: the command word, the number of other
                \* arguments that are no options, and an option no entry of
                \* the command knows
  opt,          \* opt_user, opt_system, opt_installations
  options,      \* opt_since, opt_until, opt_show_cols, opt_cols
  now,          \* what g_date_time_new_now_local answers
  since,        \* the parsed --since, or NULL
  until,        \* the parsed --until, or NULL
  columns,      \* the resolved columns, by name
  shown,        \* whether the available columns have been listed
  installs,     \* the INSTALLATION answers found in this machine's journal
  dirs,         \* the GPtrArray of target directories, or NULL
  titles,       \* the printer's column titles
  rows,         \* the printer's finished rows: [entry, cells]
  journal,      \* the sd_journal handle: "none", "open" or "closed"
  opens,        \* the number of sd_journal_open calls
  n,            \* the number of entries the iterator has yielded
  cur,          \* the last entry yielded, as far as it was read
  last,         \* what the loop did with it: status, reads, err
  log,          \* per entry yielded: its INSTALLATION as read, and the status
  printed,      \* whether flatpak_table_printer_print has run
  ret,          \* the return value: "none", "TRUE" or "FALSE"
  error,        \* the caller's GError
  run,          \* where flatpak_run is: "main", "command", "out", "returned",
                \* "exited" or "crashed"
  exit_code,    \* the exit code of the process: "none", "0" or "1"
  stderr,       \* the error main has printed
  call,         \* a function applied on its own, with its arguments
  returned      \* what it returned

vars ==
  <<pc, glib_checks, opt, since, until, columns, installs, dirs, titles, rows, journal,
    opens, n, cur, last, log, printed, ret, error,
    have_libsystemd, argv, options, now, shown, run, exit_code, stderr,
    call, returned>>

\* What the actions of print_history leave alone.
outer ==
  <<have_libsystemd, argv, options, now, shown, run, exit_code, stderr,
    call, returned>>

\* The longest journal.
MaxRecords == 3

NoEntry == [f \in Fields |-> Unread]

NoLast == [status |-> "none", reads |-> <<>>, err |-> NoError]

NoDirs == [ok |-> FALSE, v |-> <<>>]

Dirs(v) == [ok |-> TRUE, v |-> v]

(***************************************************************************)
(* The invocations                                                         *)
(***************************************************************************)
NoOpt == [user |-> FALSE, system |-> FALSE, installations |-> NoInstallations]

Opts ==
  [user : BOOLEAN, system : BOOLEAN,
   installations : {NoInstallations, Installations(<<S_extra>>),
                    Installations(<<S_default>>), Installations(<<S_gone>>)}]

\* "flatpak history" and nothing else on the command line.
HistoryArgv == [cmd |-> Str(S_history), args |-> 0, option |-> "none"]

NoOptions == [since |-> NULL, until |-> NULL, show_cols |-> FALSE, cols |-> NoCols]

\* The clock of the runs of the command: 1970-01-01 00:00:05.5.  Instants
\* are kept within the first seconds of 1970, whose microseconds the
\* integers of the model hold.
Now0 == DateTime(0, 5, 500000)

\* --since: none, "3s" (00:00:02.5) and 00:00:02.
Sinces == {NULL, Str(<<"3", "s">>), Str(<<"1", "9", "7", "0", "-", "0", "1", "-", "0", "1", " ", "0", "0", ":", "0", "0", ":", "0", "2">>)}

\* --until: none and 00:00:04.
Untils == {NULL, Str(<<"1", "9", "7", "0", "-", "0", "1", "-", "0", "1", " ", "0", "0", ":", "0", "0", ":", "0", "4">>)}

\* A GDateTime as microseconds since 1970-01-01 00:00:00.
Instant(dt) ==
  IF dt.ok THEN Time((dt.day * 86400 + dt.sec) * USEC_PER_SEC + dt.usec)
  ELSE NoTime

\* The column lists asked for with --columns.
ColumnLists ==
  {<<c>> : c \in ColumnNames}
    \cup {<<"installation", "result">>, <<"ref", "ref">>}

\* The runs explored, each an invocation and the INSTALLATION answers of the
\* journal it meets: every scope option with the installation column, or
\* with --show-columns, over every INSTALLATION answer; every time window
\* with the time and the change column over the entries of the user and of
\* the default system installation; every column list with no other option
\* over the entries of the default system installation; the invocations
\* that are refused; and the command lines that name no command or an
\* unknown one: a misspelt command, and the title of a section of the help.
Invocations ==
  [argv : {HistoryArgv}, opt : Opts,
   options : {[NoOptions EXCEPT !.show_cols = TRUE],
              [NoOptions EXCEPT !.cols = Cols(<<"installation">>)]},
   installs : {FieldOutcomes("INSTALLATION")},
   libsystemd : {TRUE}]
    \cup
  [argv : {HistoryArgv}, opt : {NoOpt, [NoOpt EXCEPT !.user = TRUE]},
   options : [since : Sinces, until : Untils, show_cols : {FALSE},
              cols : {Cols(<<"time">>), Cols(<<"change">>)}],
   installs : {{JData("INSTALLATION", S_user), JData("INSTALLATION", S_system)}},
   libsystemd : {TRUE}]
    \cup
  [argv : {HistoryArgv}, opt : {NoOpt},
   options : {[NoOptions EXCEPT !.cols = Cols(c)] : c \in ColumnLists}
               \cup {[NoOptions EXCEPT !.show_cols = TRUE]},
   installs : {{JData("INSTALLATION", S_system)}},
   libsystemd : BOOLEAN]
    \cup
  {inv \in
     [argv : [cmd : {Str(S_history)}, args : {0, 1}, option : {"none", "unknown"}],
      opt : {NoOpt, [NoOpt EXCEPT !.installations = Installations(<<S_gone>>)]},
      options : [since : {NULL, Str(S_junk), Str(S_empty)},
                 until : {NULL, Str(S_junk)},
                 show_cols : BOOLEAN,
                 cols : {NoCols, Cols(<<"bogus">>), Cols(<<"time", "bogus">>)}],
      installs : {{JData("INSTALLATION", S_system)}},
      libsystemd : BOOLEAN] :
     inv.libsystemd => (inv.options.show_cols \/ inv.options.cols.ok)}
    \cup
  [argv : [cmd : {NULL}, args : {0},
           option : {"none", "unknown", "version", "installations"}]
            \cup {[cmd |-> Str(S_histroy), args |-> 0, option |-> "none"],
                  [cmd |-> commands[1].name, args |-> 0, option |-> "none"]},
   opt : {NoOpt}, options : {NoOptions},
   installs : {{JData("INSTALLATION", S_system)}},
   libsystemd : {TRUE}]

NoCall == [fn |-> "none"]

\* The state print_history and flatpak_run begin with.
Fresh ==
  /\ pc = "history"
  /\ since = NoTime
  /\ until = NoTime
  /\ columns = <<>>
  /\ shown = FALSE
  /\ dirs = NoDirs
  /\ titles = <<>>
  /\ rows = <<>>
  /\ journal = "none"
  /\ opens = 0
  /\ n = 0
  /\ cur = NoEntry
  /\ last = NoLast
  /\ log = <<>>
  /\ printed = FALSE
  /\ ret = "none"
  /\ error = NoError
  /\ exit_code = "none"
  /\ stderr = NoError

Init ==
  /\ \E inv \in Invocations :
       /\ argv = inv.argv
       /\ opt = inv.opt
       /\ options = inv.options
       /\ installs = inv.installs
       /\ have_libsystemd = inv.libsystemd
  /\ glib_checks \in BOOLEAN
  /\ now = Now0
  /\ run = "main"
  /\ Fresh
  /\ call = NoCall
  /\ returned = NoCall

(***************************************************************************)
(* flatpak_run, up to the call of the command                              *)
(***************************************************************************)
\* Lines 223-313, as flatpak_run calls it at line 549 with empty_entries and
\* FLATPAK_BUILTIN_FLAG_NO_DIR: g_option_context_parse refuses an option it
\* does not know and sets the caller's error; --version prints and exits;
\* --installations prints the paths and exits, but when
\* flatpak_get_system_base_dir_locations fails (paths is FALSE) the error
\* goes to the local variable of line 297 and FALSE is returned with the
\* caller's error unset.
OptionContextParseNoDir(option, paths) ==
  IF option = "unknown"
  THEN [ok |-> FALSE, exits |-> FALSE, err |-> Err("Unknown option", "")]
  ELSE IF option = "version"
  THEN [ok |-> TRUE, exits |-> TRUE, err |-> NoError]
  ELSE IF option = "installations"
  THEN [ok |-> paths, exits |-> paths, err |-> NoError]
  ELSE [ok |-> TRUE, exits |-> FALSE, err |-> NoError]

\* Lines 520-567.  With no command function: an unknown command word is an
\* error that names the command find_similar_command found; with no command word the options are parsed (lines 544-553), and
\* an option that prints and exits ends the process there.  When the parse
\* fails, line 552 reads the message of local_error; if that is NULL the
\* process dies, or goes on with whatever bytes it read.
FlatpakRun ==
  /\ run = "main"
  /\ LET command == extract_command(argv.cmd)
     IN IF command.fn # "NULL"
        THEN /\ run' = "command"
             /\ UNCHANGED <<error, exit_code>>
        ELSE IF argv.cmd.ok
        THEN \E similar \in {find_similar_command(argv.cmd.s)} :
               /\ error' = IF similar.ok
                           THEN Err("is not a flatpak command. Did you mean",
                                    similar.s)
                           ELSE Err("is not a flatpak command", argv.cmd.s)
               /\ run' = "out"
               /\ UNCHANGED exit_code
        ELSE \E paths \in BOOLEAN, dies \in BOOLEAN :
             \E r \in {OptionContextParseNoDir(argv.option, paths)} :
               IF r.exits
               THEN /\ run' = "exited"
                    /\ exit_code' = "0"
                    /\ UNCHANGED error
               ELSE IF r.ok
               THEN /\ error' = Err("No command specified", "")
                    /\ run' = "out"
                    /\ UNCHANGED exit_code
               ELSE IF r.err.set
               THEN /\ error' = r.err
                    /\ run' = "out"
                    /\ UNCHANGED exit_code
               ELSE IF dies
               THEN /\ run' = "crashed"
                    /\ UNCHANGED <<error, exit_code>>
               ELSE /\ error' = Err("(what line 552 read)", "")
                    /\ run' = "out"
                    /\ UNCHANGED exit_code
  /\ UNCHANGED <<pc, glib_checks, opt, since, until, columns, installs, dirs,
                 titles, rows, journal, opens, n, cur, last, log, printed, ret,
                 have_libsystemd, argv, options, now, shown, stderr,
                 call, returned>>

(***************************************************************************)
(* flatpak_builtin_history                                                 *)
(***************************************************************************)
HistoryFailed(e) ==
  [ok |-> FALSE, dirs |-> <<>>, since |-> NoTime, until |-> NoTime,
   columns |-> <<>>, shown |-> FALSE, err |-> e]

\* Lines 441-447: the columns are resolved, c being what handle_column_args
\* answered; the arguments of print_history, or the error.
HistoryColumns(r, s, u, c) ==
  IF ~c.ok THEN HistoryFailed(c.err)
  ELSE [ok |-> TRUE, dirs |-> r.dirs, since |-> s, until |-> u,
        columns |-> c.columns, shown |-> c.shown, err |-> NoError]

\* Lines 420-443: s and u are what parse_time made of --since and --until.
HistoryTimes(os, r, s, u) ==
  IF os.since.ok /\ ~s.ok
  THEN HistoryFailed(Err("Failed to parse the --since option", ""))
  ELSE IF os.until.ok /\ ~u.ok
  THEN HistoryFailed(Err("Failed to parse the --until option", ""))
  ELSE HistoryColumns(r, Instant(s), Instant(u),
                      handle_column_args(os.show_cols, os.cols))

\* Lines 412-440: r is what flatpak_option_context_parse answered.
HistoryArgs(av, os, clock, r) ==
  IF ~r.ok THEN HistoryFailed(r.err)
  ELSE IF av.args + 1 > 1 THEN HistoryFailed(Err("Too many arguments", ""))
  ELSE HistoryTimes(os, r,
                    IF os.since.ok THEN parse_time(os.since.s, clock)
                    ELSE NoDateTime,
                    IF os.until.ok THEN parse_time(os.until.s, clock)
                    ELSE NoDateTime)

\* flatpak_builtin_history without the test of line 417 for arguments.
flatpak_builtin_history_any_args(av, o, os, clock, listOk, repoOk) ==
  IF av.option # "none" THEN HistoryFailed(Err("Unknown option", ""))
  ELSE HistoryArgs([av EXCEPT !.args = 0], os, clock,
                   flatpak_option_context_parse(o, listOk, repoOk))

\* Lines 412-447: the options are parsed and the target directories
\* resolved (g_option_context_parse refuses an option it does not know),
\* arguments are refused, --since and --until are parsed and the columns
\* resolved: the arguments of print_history, or the error.
flatpak_builtin_history(av, o, os, clock, listOk, repoOk) ==
  IF av.option # "none" THEN HistoryFailed(Err("Unknown option", ""))
  ELSE HistoryArgs(av, os, clock, flatpak_option_context_parse(o, listOk, repoOk))

\* Lines 397-451, up to the call of print_history.
History ==
  /\ run = "command"
  /\ pc = "history"
  /\ \E listOk \in BOOLEAN, repoOk \in BOOLEAN :
     \E h \in {flatpak_builtin_history(argv, opt, options, now, listOk, repoOk)} :
       IF h.ok
       THEN /\ dirs' = Dirs(h.dirs)
            /\ since' = h.since
            /\ until' = h.until
            /\ columns' = h.columns
            /\ shown' = h.shown
            /\ pc' = "print_history"
            /\ UNCHANGED <<ret, error>>
       ELSE /\ pc' = "done"
            /\ ret' = "FALSE"
            /\ error' = h.err
            /\ UNCHANGED <<dirs, since, until, columns, shown>>
  /\ UNCHANGED <<glib_checks, opt, installs, titles, rows, journal,
                 opens, n, cur, last, log, printed,
                 have_libsystemd, argv, options, now, run, exit_code, stderr,
                 call, returned>>

(***************************************************************************)
(* print_history                                                           *)
(***************************************************************************)
NoColumns_never(cols) == FALSE

\* Line 147: columns[0].name == NULL.
NoColumns(cols) == Len(cols) = 0

\* A print_history without libsystemd that reports an empty history.
print_history_stub_empty == [ret |-> "TRUE", err |-> NoError]

\* Lines 316-326: print_history of a build without libsystemd.
print_history_stub ==
  [ret |-> "FALSE", err |-> Err("history not available without libsystemd", "")]

\* Lines 147-159: nothing to do without columns; else the printer gets its
\* titles and the journal is opened.  Lines 316-326 in a build without
\* libsystemd.
PrintHistoryOpen ==
  /\ pc = "print_history"
  /\ IF ~have_libsystemd
     THEN /\ pc' = "done"
          /\ ret' = print_history_stub.ret
          /\ error' = print_history_stub.err
          /\ UNCHANGED <<titles, journal, opens>>
     ELSE IF NoColumns(columns)
     THEN /\ pc' = "done"
          /\ ret' = "TRUE"
          /\ UNCHANGED <<titles, journal, opens, error>>
     ELSE /\ titles' = [i \in 1..Len(columns) |-> ColumnOf(columns[i]).title]
          /\ opens' = opens + 1
          /\ \E ok \in BOOLEAN :
               IF ok
               THEN /\ journal' = "open"
                    /\ pc' = "add_match"
                    /\ UNCHANGED <<ret, error>>
               ELSE /\ pc' = "done"
                    /\ ret' = "FALSE"
                    /\ error' = Err("Failed to open journal", "")
                    /\ UNCHANGED journal
  /\ UNCHANGED <<glib_checks, opt, since, until, columns, installs,
                 dirs, rows, n, cur,
                 last, log, printed>>
  /\ UNCHANGED outer

\* Lines 161-166: only the entries of flatpak transactions are asked for.
AddMatch ==
  /\ pc = "add_match"
  /\ \E ok \in BOOLEAN :
       IF ok
       THEN /\ pc' = "scan"
            /\ UNCHANGED <<ret, error>>
       ELSE /\ pc' = "done"
            /\ ret' = "FALSE"
            /\ error' = Err("Failed to add match to journal", "")
  /\ UNCHANGED <<glib_checks, opt, since, until, columns, installs,
                 dirs, titles, rows,
                 journal, opens, n, cur, last, log, printed>>
  /\ UNCHANGED outer

\* The fields a turn of the loop can ask for.
NeededFields ==
  (IF dirs.ok THEN {"INSTALLATION"} ELSE {})
    \cup (IF since.ok \/ until.ok THEN {"_SOURCE_REALTIME_TIMESTAMP"} ELSE {})
    \cup {ColumnField(columns[k]) : k \in 1..Len(columns)}

\* The entries over the fields fs, every other field left unread.
RECURSIVE Entries(_)
Entries(fs) ==
  IF fs = {} THEN {NoEntry}
  ELSE LET f == CHOOSE x \in fs : TRUE
           os == IF f = "INSTALLATION" THEN installs ELSE FieldOutcomes(f)
       IN {[e EXCEPT ![f] = o] : e \in Entries(fs \ {f}), o \in os}

\* A loop that finishes a row for every entry, skipped or not.
EmitRow_always(rs, p, i) == Append(rs, [entry |-> i, cells |-> p.cells])

\* Lines 170-303: the printer's rows after entry i, p being what the loop
\* made of it; flatpak_table_printer_finish_row is reached by an entry that
\* was not skipped and whose columns were all read.
EmitRow(rs, p, i) ==
  IF p.status = "row" THEN Append(rs, [entry |-> i, cells |-> p.cells]) ELSE rs

\* Lines 168-304: the iterator yields the next entry, most recent first, and
\* the loop filters and projects it.
Iterate ==
  /\ pc = "scan"
  /\ n < MaxRecords
  /\ \E rec \in Entries(NeededFields) :
     \E p \in {ProcessEntry(rec, dirs, since, until, columns, glib_checks)} :
       LET wasRead == {p.reads[i] : i \in 1..Len(p.reads)}
       IN /\ n' = n + 1
          /\ cur' = [f \in Fields |-> IF f \in wasRead THEN rec[f] ELSE Unread]
          /\ last' = [status |-> p.status, reads |-> p.reads, err |-> p.err]
          /\ log' = Append(log, [installation |-> cur'["INSTALLATION"],
                                 status |-> p.status])
          /\ rows' = EmitRow(rows, p, n + 1)
          /\ pc' = CASE p.status = "error" -> "done"
                     [] p.status = "crash" -> "crashed"
                     [] OTHER -> "scan"
          /\ ret' = IF p.status = "error" THEN "FALSE" ELSE ret
          /\ error' = IF p.status = "error" THEN p.err ELSE error
  /\ UNCHANGED <<glib_checks, opt, since, until, columns, installs,
                 dirs, titles, journal,
                 opens, printed>>
  /\ UNCHANGED outer

\* Lines 306-311: the iterator is exhausted; the table is printed and the
\* journal closed.
EndOfJournal ==
  /\ pc = "scan"
  /\ printed' = TRUE
  /\ journal' = "closed"
  /\ pc' = "done"
  /\ ret' = "TRUE"
  /\ UNCHANGED <<glib_checks, opt, since, until, columns, installs,
                 dirs, titles, rows,
                 opens, n, cur, last, log, error>>
  /\ UNCHANGED outer

(***************************************************************************)
(* flatpak_run after the command, and main                                 *)
(***************************************************************************)
\* Lines 569-577: the command has returned, or there was none.  The
\* assertion of line 570 aborts the process.
FlatpakRunOut ==
  /\ \/ run = "out"
     \/ run = "command" /\ pc = "done"
  /\ LET success == run = "command" /\ ret = "TRUE"
     IN IF ~(success \/ error.set)
        THEN /\ run' = "crashed"
             /\ UNCHANGED exit_code
        ELSE /\ run' = "returned"
             /\ exit_code' = IF error.set THEN "1" ELSE "0"
  /\ UNCHANGED <<pc, glib_checks, opt, since, until, columns, installs, dirs,
                 titles, rows, journal, opens, n, cur, last, log, printed, ret,
                 error, have_libsystemd, argv, options, now, shown, stderr,
                 call, returned>>

\* Lines 697-718: main prints the error, if there is one, and returns what
\* flatpak_run returned.
Main ==
  /\ run = "returned"
  /\ stderr' = error
  /\ run' = "exited"
  /\ UNCHANGED <<pc, glib_checks, opt, since, until, columns, installs, dirs,
                 titles, rows, journal, opens, n, cur, last, log, printed, ret,
                 error, have_libsystemd, argv, options, now, shown, exit_code,
                 call, returned>>

Next ==
  \/ FlatpakRun
  \/ History
  \/ PrintHistoryOpen
  \/ AddMatch
  \/ Iterate
  \/ EndOfJournal
  \/ FlatpakRunOut
  \/ Main

Spec == Init /\ [][Next]_vars

(***************************************************************************)
(* parse_time and dir_get_id, each applied on its own                      *)
(***************************************************************************)
\* The texts handed to parse_time: durations, times of day, dates, and
\* texts that are neither.
Texts ==
  {<<"2", " ", "d", "a", "y", "s", " ", "3", " ", "h", "o", "u", "r", "s">>,
   <<"2", "d", "a", "y", "s", " ", "3", "h", "o", "u", "r", "s">>,
   <<"1", "d">>,
   <<"3", "s">>,
   <<"5", "m">>,
   <<"1", "h", "o", "u", "r">>,
   <<"-", "1", "d">>,
   <<"1", "d", " ", "2", "d">>,
   <<"2", "m", "i", "n", "u", "t", "e", "s", " ", "3", "0", "s", "e", "c", "o", "n", "d", "s">>,
   <<"1", "2", ":", "0", "0">>,
   <<"0", "9", ":", "3", "0", ":", "1", "5">>,
   <<"2", "0", "2", "4", "-", "0", "1", "-", "0", "8">>,
   <<"2", "0", "2", "4", "-", "0", "1", "-", "0", "8", " ", "0", "9", ":", "0", "0", ":", "0", "0">>,
   <<"2", "4", ":", "0", "0">>,
   <<"2", "0", "2", "4", "-", "0", "2", "-", "3", "0">>,
   <<>>,
   <<"d">>,
   <<"5">>,
   <<"3", "x">>,
   <<"j", "u", "n", "k">>,
   <<"1", "d", " ", " ", "2", "h">>,
   <<"1", "d", " ">>,
   <<" ", "1", "d">>}

\* What g_date_time_new_now_local answers: 2024-01-10 12:00:00, a day of
\* December, and the 31st of a month.
Nows ==
  {DateTime(days_from_civil(2024, 1, 10), 43200, 0),
   DateTime(days_from_civil(2024, 12, 15), 30600, 0),
   DateTime(days_from_civil(2024, 1, 31), 86399, 500000)}

\* The FlatpakDir handed to dir_get_id: flatpak_dir_get_id answers NULL for
\* a directory with no extra data.
DirInputs ==
  [user : BOOLEAN,
   id : {NULL, Str(S_default), Str(S_extra), Str(S_user), Str(S_system),
         Str(S_unknown)}]

PureInit ==
  /\ argv = HistoryArgv
  /\ opt = NoOpt
  /\ options = NoOptions
  /\ installs = {}
  /\ have_libsystemd = TRUE
  /\ glib_checks = TRUE
  /\ now = Now0
  /\ run = "pure"
  /\ Fresh
  /\ call \in [fn : {"parse_time"}, text : Texts, now : Nows]
               \cup [fn : {"dir_get_id"}, dir : DirInputs]
  /\ returned = NoCall

\* parse_time (text) with the clock at call.now.
ParseTime ==
  /\ call.fn = "parse_time"
  /\ returned = NoCall
  /\ returned' = [fn |-> "parse_time", time |-> parse_time(call.text, call.now)]
  /\ UNCHANGED <<pc, glib_checks, opt, since, until, columns, installs, dirs,
                 titles, rows, journal, opens, n, cur, last, log, printed, ret,
                 error, have_libsystemd, argv, options, now, shown, run,
                 exit_code, stderr, call>>

\* dir_get_id (dir).
DirGetId ==
  /\ call.fn = "dir_get_id"
  /\ returned = NoCall
  /\ returned' = [fn |-> "dir_get_id", id |-> dir_get_id(call.dir)]
  /\ UNCHANGED <<pc, glib_checks, opt, since, until, columns, installs, dirs,
                 titles, rows, journal, opens, n, cur, last, log, printed, ret,
                 error, have_libsystemd, argv, options, now, shown, run,
                 exit_code, stderr, call>>

PureNext ==
  \/ ParseTime
  \/ DirGetId

PureSpec == PureInit /\ [][PureNext]_vars

(***************************************************************************)
(* Properties                                                              *)
(***************************************************************************)
TS == "_SOURCE_REALTIME_TIMESTAMP"

Present(d) == d.r = 0

Absent(d) == d.r = 0 - ENOENT

ReadError(d) == d.r < 0 /\ d.r # 0 - ENOENT

\* The value of a present field of the last entry: what follows "NAME=".
EntryValue(f) == SubSeq(cur[f].data, Len(FieldKey(f)) + 2, Len(cur[f].data))

\* The last entry went through the filters and its projection began.
Projected == last.status \in {"row", "error", "crash"}

LastRow == rows[Len(rows)]

Windowed == since.ok \/ until.ok

\* C1: an entry whose time is t is emitted iff (no since or t > since) and
\* (no until or t < until), whichever of the two bounds are given.
C1_TimeWindow ==
  \A t \in RecordTimes :
    (/\ last.status \in {"row", "skip_time"}
     /\ Present(cur[TS])
     /\ EntryValue(TS) = ToDecimal(t))
    => (last.status = "row"
          <=> (/\ (since.ok => t > since.t)
               /\ (until.ok => t < until.t)))

\* An entry's INSTALLATION, as logged, equals the id of one of the target
\* directories.
Matches(d) ==
  /\ Present(d)
  /\ \E i \in 1..Len(dirs.v) :
       LET id == dir_get_id(dirs.v[i])
       IN id.ok /\ d.data = FieldKey("INSTALLATION") \o <<"=">> \o id.s

\* C2: with a list of target directories, an entry passes the scope filter
\* iff its INSTALLATION equals dir_get_id of one of them (an entry with no
\* INSTALLATION never does), and with no time window and no failure it is
\* emitted iff it does; of the entries system, user, system and the target
\* user alone, with no time window, exactly the second one makes a row.
C2_ScopeFilter ==
  dirs.ok =>
    /\ \A i \in 1..Len(log) :
         /\ log[i].status # "skip_scope" <=> Matches(log[i].installation)
         /\ (~Windowed /\ log[i].status \notin {"error", "crash"})
              => (log[i].status = "row" <=> Matches(log[i].installation))
         /\ log[i].status = "row" <=> \E k \in 1..Len(rows) : rows[k].entry = i
    /\ (/\ Len(log) = 3
        /\ ~Windowed
        /\ log[2].status \notin {"error", "crash"}
        /\ \A i \in 1..3 :
             log[i].installation
               = JData("INSTALLATION", IF i = 2 THEN S_user ELSE S_system)
        /\ {dir_get_id(dirs.v[i]) : i \in 1..Len(dirs.v)} = {Str(S_user)})
       => (Len(rows) = 1 /\ rows[1].entry = 2)

C2_Witness ==
  /\ pc = "done"
  /\ printed
  /\ dirs = Dirs(<<UserDir>>)
  /\ Len(log) = 3
  /\ \A i \in 1..3 :
       log[i].installation
         = JData("INSTALLATION", IF i = 2 THEN S_user ELSE S_system)
  /\ rows = <<[entry |-> 2, cells |-> <<S_user>>]>>

\* C3: invoked with none of --user, --system and --installation, no entry
\* is dropped by the scope filter, be its INSTALLATION absent or any value.
C3_NoOptionNoScopeFilter ==
  (/\ NoScopeOption(opt)
   /\ Present(cur["INSTALLATION"]) \/ Absent(cur["INSTALLATION"]))
  => last.status # "skip_scope"

\* C4: the cell of the result column is the check mark iff RESULT is present
\* and is not "0", and is empty when RESULT is "0" or absent.
C4_ResultCell ==
  \A k \in 1..Len(columns) :
    (/\ columns[k] = "result"
     /\ last.status = "row"
     /\ Present(cur["RESULT"]) \/ Absent(cur["RESULT"]))
    => /\ LastRow.cells[k] = S_check
            <=> (Present(cur["RESULT"]) /\ EntryValue("RESULT") # S_zero)
       /\ LastRow.cells[k] \in {S_check, S_empty}

\* C5: a field that is absent never aborts the scan and makes an empty cell,
\* for every column but time (stated of the build whose GLib checks its
\* arguments, the default one).
C5_AbsentFieldEmptyCell ==
  \A k \in 1..Len(columns) :
    (/\ glib_checks
     /\ columns[k] # "time"
     /\ Projected
     /\ Absent(cur[ColumnField(columns[k])]))
    => /\ last.status = "row" => LastRow.cells[k] = S_empty
       /\ last.status \in {"error", "crash"}
            => \E k2 \in 1..Len(columns) :
                 ColumnField(columns[k2]) # ColumnField(columns[k])

\* C6: with the time column selected, an entry whose timestamp is absent or
\* is not a number makes print_history fail with an error, and no time cell
\* is made (stated of the build whose GLib checks its arguments).
C6_TimeRequired ==
  (/\ glib_checks
   /\ \E k \in 1..Len(columns) : columns[k] = "time"
   /\ Projected
   /\ \/ Absent(cur[TS])
      \/ Present(cur[TS]) /\ EntryValue(TS) = S_junk)
  => (last.status = "error" /\ pc = "done" /\ ret = "FALSE" /\ error.set)

\* C7: a read error on a field that a selected column needs, at any entry,
\* makes print_history return FALSE with the error set, the table unprinted.
C7_ReadErrorAborts ==
  (\E i \in 1..Len(last.reads) :
     /\ ReadError(cur[last.reads[i]])
     /\ \E k \in 1..Len(columns) : ColumnField(columns[k]) = last.reads[i])
  => (pc = "done" /\ ret = "FALSE" /\ error.set /\ ~printed)

\* C8: a read error on the field a filter reads (INSTALLATION for the scope,
\* the timestamp for the window) ends the scan with an error.
C8_FilterReadErrorAborts ==
  (\/ dirs.ok /\ ReadError(cur["INSTALLATION"])
   \/ Windowed /\ ReadError(cur[TS]))
  => (pc = "done" /\ ret = "FALSE" /\ error.set)

\* C9: once opened, the journal is closed when print_history has returned.
C9_JournalClosed ==
  (pc = "done" /\ opens > 0 /\ journal # "none") => journal = "closed"

\* C10: with no column, print_history returns TRUE and has neither opened
\* the journal, nor iterated, nor printed (print_history being the one of
\* lines 133-312, of a build with libsystemd).
C10_NoColumnsNoOpen ==
  Len(columns) = 0 =>
    /\ opens = 0 /\ journal = "none" /\ n = 0 /\ rows = <<>> /\ ~printed
    /\ pc \in {"history", "print_history", "done"}
    /\ (have_libsystemd /\ pc = "done" /\ dirs.ok) => (ret = "TRUE" /\ ~error.set)

C10_Witness ==
  /\ Len(columns) = 0
  /\ pc = "done"
  /\ dirs.ok
  /\ ret = "TRUE"
  /\ opens = 0

(***************************************************************************)
(* Properties of the invocation and of flatpak_run                         *)
(***************************************************************************)
\* The command word names the history command.
IsHistory == argv.cmd = Str(S_history)

\* flatpak_builtin_history has returned.
HistoryReturned == IsHistory /\ pc = "done"

\* print_history was called: flatpak_builtin_history got as far as line 448,
\* its options, its scope and its columns accepted.
PrintHistoryCalled == dirs.ok

\* C11: "flatpak history --show-columns", whatever --since, --until,
\* --columns and scope options it has accepted beside it, and with and
\* without libsystemd, lists the columns and returns success without
\* opening the journal.
C11_ShowColumns ==
  (HistoryReturned /\ PrintHistoryCalled /\ options.show_cols)
    => (shown /\ ret = "TRUE" /\ ~error.set /\ opens = 0)

SinceFails == options.since.ok /\ ~parse_time(options.since.s, now).ok

UntilFails == options.until.ok /\ ~parse_time(options.until.s, now).ok

UnknownKey ==
  /\ options.cols.ok
  /\ \E i \in 1..Len(options.cols.v) : options.cols.v[i] \notin ColumnNames

\* flatpak_builtin_history returns in this step.
HistoryReturns == run = "command" /\ pc = "history" /\ pc' # "history"

\* flatpak_builtin_history has returned FALSE with an error, the journal
\* was not opened, no row was made and nothing was printed.
Fatal ==
  /\ pc = "done"
  /\ ret = "FALSE"
  /\ error.set
  /\ opens = 0
  /\ rows = <<>>
  /\ ~printed

\* Once flatpak_builtin_history has returned, no journal is opened and
\* nothing is added to the table or printed.
Over == pc = "done" => UNCHANGED <<ret, opens, rows, printed>>

Dispatched == extract_command(argv.cmd).fn # "NULL"

\* C13: flatpak_run returns, and returns 0 iff a command was dispatched and
\* reported success, and non-zero with the error set otherwise; main has
\* printed the error iff the exit code is non-zero.
C13_ExitCode ==
  /\ run # "crashed"
  /\ run = "returned"
       => /\ exit_code = "0" <=> (Dispatched /\ ret = "TRUE")
          /\ exit_code # "0" => error.set
  /\ run = "exited" => (stderr.set <=> exit_code # "0")

(***************************************************************************)
(* Properties of parse_time and dir_get_id                                 *)
(***************************************************************************)
T_2_days_3_hours == <<"2", " ", "d", "a", "y", "s", " ", "3", " ", "h", "o", "u", "r", "s">>

T_2days_3hours == <<"2", "d", "a", "y", "s", " ", "3", "h", "o", "u", "r", "s">>

T_12_00 == <<"1", "2", ":", "0", "0">>

T_09_30_15 == <<"0", "9", ":", "3", "0", ":", "1", "5">>

T_2024_01_08 == <<"2", "0", "2", "4", "-", "0", "1", "-", "0", "8">>

\* 2024-01-10 12:00:00.
Reference == DateTime(days_from_civil(2024, 1, 10), 12 * 3600, 0)

ParseTimeReturned == returned # NoCall /\ returned.fn = "parse_time"

\* C14: a duration is taken off the clock: "2 days 3 hours" at 2024-01-10
\* 12:00:00 is 2024-01-08 09:00:00, and "2days 3hours" is two days and three
\* hours before whatever the clock says.
C14_RelativeTime ==
  ParseTimeReturned
    => /\ (call.text = T_2_days_3_hours /\ call.now = Reference)
            => returned.time = DateTime(days_from_civil(2024, 1, 8), 9 * 3600, 0)
       /\ call.text = T_2days_3hours
            => /\ returned.time.ok
               /\ returned.time.day * 86400 + returned.time.sec
                    = call.now.day * 86400 + call.now.sec - (2 * 86400 + 3 * 3600)
               /\ returned.time.usec = call.now.usec

\* C15: "12:00" and "09:30:15" are that time of the day of the clock, and
\* "2024-01-08" is that day at 00:00:00.
C15_AbsoluteTime ==
  ParseTimeReturned
    => /\ call.text = T_12_00
            => returned.time = DateTime(call.now.day, 12 * 3600, 0)
       /\ call.text = T_09_30_15
            => returned.time = DateTime(call.now.day, 9 * 3600 + 30 * 60 + 15, 0)
       /\ call.text = T_2024_01_08
            => returned.time = DateTime(days_from_civil(2024, 1, 8), 0, 0)

DirGetIdReturned == returned # NoCall /\ returned.fn = "dir_get_id"

\* C16: dir_get_id is never NULL: "user" for the user installation, and for
\* a system installation "system" if its id is "default", "unknown" if it
\* has no id, and its id otherwise.
C16_DirGetId ==
  DirGetIdReturned
    => /\ returned.id.ok
       /\ call.dir.user => returned.id.s = S_user
       /\ (~call.dir.user /\ call.dir.id = Str(S_default))
            => returned.id.s = S_system
       /\ (~call.dir.user /\ ~call.dir.id.ok) => returned.id.s = S_unknown
       /\ (~call.dir.user /\ call.dir.id.ok /\ call.dir.id.s # S_default)
            => returned.id.s = call.dir.id.s

C16_Witness ==
  /\ DirGetIdReturned
  /\ ~call.dir.user
  /\ call.dir.id = NULL
  /\ returned.id = Str(S_unknown)

\* Texts that are no date, no time of day and no duration: the empty text,
\* a unit with no number, a number with no unit, an unknown unit, a word,
\* and the empty tokens of two spaces, of a space at the end and of a space
\* at the beginning.
NotATime ==
  {<<>>, <<"d">>, <<"5">>, <<"3", "x">>, S_junk,
   <<"1", "d", " ", " ", "2", "h">>, <<"1", "d", " ">>, <<" ", "1", "d">>}

\* C20: parse_time refuses every text that is no date, no time of day and no
\* sequence of numbers with units: it returns NULL, never an instant.
C20_RelativeRefused ==
  (ParseTimeReturned /\ call.text \in NotATime) => ~returned.time.ok

(***************************************************************************)
(* Properties of print_history                                             *)
(***************************************************************************)
\* The entries the loop neither skipped nor failed on.
RowEntries == {i \in 1..Len(log) : log[i].status = "row"}

\* C17: the rows of the printer are the entries that passed the filters,
\* one row each, in the order the iterator yielded them.
C17_RowsInOrder ==
  /\ Len(rows) = Cardinality(RowEntries)
  /\ \A k \in 1..Len(rows) : rows[k].entry \in RowEntries
  /\ \A k \in 1..(Len(rows) - 1) : rows[k].entry < rows[k + 1].entry

C17_Witness ==
  /\ printed
  /\ Len(log) = 3
  /\ log[2].status = "skip_scope"
  /\ Len(rows) = 2
  /\ rows[1].entry = 1
  /\ rows[2].entry = 3

\* C18: sd_journal_open is called once at most; when it fails, or when
\* sd_journal_add_match fails, print_history returns FALSE with an error
\* and prints nothing; without libsystemd print_history always returns
\* FALSE with the error "history not available without libsystemd".
C18_BackendUnavailable ==
  /\ opens <= 1
  /\ (have_libsystemd /\ pc = "done" /\ opens = 1 /\ n = 0 /\ journal # "closed")
       => (ret = "FALSE" /\ error.set /\ ~printed /\ rows = <<>>)
  /\ (~have_libsystemd /\ pc = "done" /\ PrintHistoryCalled)
       => /\ ret = "FALSE"
          /\ error = Err("history not available without libsystemd", "")
          /\ ~printed
          /\ opens = 0

C18_Witness ==
  /\ pc = "done"
  /\ opens = 1
  /\ journal = "none"
  /\ ret = "FALSE"
  /\ error = Err("Failed to open journal", "")

\* C19: with both bounds given, an entry whose time t in microseconds is
\* after since and before until is emitted, and one with t at or after
\* until is not, whatever t is once cut to whole seconds.
C19_MicrosecondWindow ==
  \A t \in RecordTimes :
    (/\ since.ok
     /\ until.ok
     /\ last.status \in {"row", "skip_time"}
     /\ Present(cur[TS])
     /\ EntryValue(TS) = ToDecimal(t))
    => /\ (since.t < t /\ t < until.t) => last.status = "row"
       /\ t >= until.t => last.status = "skip_time"

\* The loop has dealt with an entry.
Dealt == last.status # "none"

\* The fields of the columns, in the order of the columns.
ColumnReads == [k \in 1..Len(columns) |-> ColumnField(columns[k])]

\* C21: for each entry the scope test comes first, then the time window,
\* then the columns in their order: an entry the scope test rejects has had
\* INSTALLATION read and nothing else, one the window rejects has had
\* INSTALLATION and the timestamp read and no column, and a rejected entry
\* has no row.
C21_ShortCircuit ==
  Dealt
    => /\ last.status = "skip_scope" => last.reads = <<"INSTALLATION">>
       /\ last.status = "skip_time" => last.reads = <<"INSTALLATION", TS>>
       /\ last.status \in {"skip_scope", "skip_time"}
            => \A k \in 1..Len(rows) : rows[k].entry # n
       /\ last.status = "row"
            => last.reads = (IF dirs.ok THEN <<"INSTALLATION">> ELSE <<>>)
                              \o (IF Windowed THEN <<TS>> ELSE <<>>)
                              \o ColumnReads

C21_Witness ==
  /\ since.ok
  /\ Len(log) = 2
  /\ log[1].status = "row"
  /\ last.status = "skip_scope"
  /\ last.reads = <<"INSTALLATION">>
  /\ Len(rows) = 1

\* C22: every finished row has one cell per resolved column.
C22_RowWidth ==
  \A k \in 1..Len(rows) : Len(rows[k].cells) = Len(columns)

C22_Witness ==
  /\ columns = <<"installation", "result">>
  /\ Len(rows) = 2
  /\ rows[2].cells = <<S_system, S_empty>>

\* C23: flatpak_option_context_parse never returns FALSE with the caller's
\* error unset: flatpak_run does not die at the assertion of line 570 or at
\* the read of line 552, the message it reports is one that was set, and a
\* command that has returned FALSE has set the error.
C23_ErrorSetOnFailure ==
  /\ run # "crashed"
  /\ error.msg # "(what line 552 read)"
  /\ (pc = "done" /\ ret = "FALSE") => error.set

\* The entries of the table that can be dispatched.
Dispatchable == {i \in 1..Len(commands) : commands[i].fn # "NULL"}

\* C24: a command is run only if its entry has a function and its name is
\* the command word, and the name that the 'Did you mean' message of an
\* unknown command word suggests is the name of an entry with a function,
\* never the title of a section.
C24_DispatchAndSuggestion ==
  /\ run = "command"
       => \E i \in Dispatchable : commands[i].name = argv.cmd
  /\ error.msg = "is not a flatpak command. Did you mean"
       => \E i \in Dispatchable : commands[i].name.s = error.arg

=============================================================================
